---- MODULE Spec2Model ----
(***************************************************************************)
(* A model of sqlalchemy_django_admin: the composite-key token codec, the  *)
(* composite-key pseudo-field (read, assignment, exact lookup, delete),    *)
(* the column-to-field conversion with its foreign-key chain walk, the     *)
(* table-to-model synthesis and the admin's default list columns.          *)
(*                                                                         *)
(* Text is a sequence of character codes (Unicode code points); bytes are  *)
(* integers 0..255.  A Python value is a record with a type tag.  A Python *)
(* dict is the sequence of its entries in insertion order, keys distinct.  *)
(***************************************************************************)
EXTENDS Integers, Sequences, FiniteSets, TLC

VARIABLES
    \* ---- composite-key token codec (fields.py, CompositeKey)
    keyA,        \* a CompositeKey mapping
    keyB,        \* a CompositeKey holding the same pairs, inserted in another order
    tokA,        \* str(keyA), or NoText
    tokB,        \* str(keyB), or NoText
    hashA,       \* hash(keyA), or NoHash
    hashB,       \* hash(keyB), or NoHash
    back,        \* CompositeKeyField.to_python(tokA), or VNone
    kpc,         \* what has been computed so far
    \* ---- a composite-keyed model: its table and one record (fields.py,
    \*      CompositeKeyField and Exact)
    table,       \* the rows of the table
    inst,        \* the record instance: attribute name -> value
    op,          \* the operation that ran last
    ret,         \* what that operation returned
    \* ---- table_as_model at work (__init__.py)
    tbl,         \* the Table being converted
    pk_column,   \* index of the column passed as pk_column, 0 for None
    ci,          \* index of the column _column_as_field is converting
    col,         \* `col` of the foreign-key chain walk
    foreign_key, \* `foreign_key` of the chain walk
    attrs,       \* `attrs`: the (name, field) pairs built so far
    mpc,         \* where table_as_model is
    \* ---- the admin's list columns (admin.py)
    opts_fields, \* self.opts.get_fields()
    list_display,\* self.list_display
    shown,       \* what get_list_display returned
    apc

kvars == <<keyA, keyB, tokA, tokB, hashA, hashB, back, kpc>>
rvars == <<table, inst, op, ret>>
mvars == <<tbl, pk_column, ci, col, foreign_key, attrs, mpc>>
avars == <<opts_fields, list_display, shown, apc>>
vars == <<kvars, rvars, mvars, avars>>

-----------------------------------------------------------------------------
(* Bounds of the model *)

MaxKeyCols == 2      \* most constituent columns of a composite key

-----------------------------------------------------------------------------
(* Python values *)

VNone == [t |-> "none", n |-> 0, s |-> <<>>]
VInt(i) == [t |-> "int", n |-> i, s |-> <<>>]
VBool(b) == [t |-> "bool", n |-> IF b THEN 1 ELSE 0, s |-> <<>>]
VStr(txt) == [t |-> "str", n |-> 0, s |-> txt]
\* a dict value: s holds the entries [k |-> text, v |-> value] in insertion order
VDict(entries) == [t |-> "dict", n |-> 0, s |-> entries]

Entry(k, v) == [k |-> k, v |-> v]

DictKeys(d) == {d[i].k : i \in 1..Len(d)}

DictHas(d, k) == \E i \in 1..Len(d) : d[i].k = k

\* d[k]
DictGet(d, k) == d[CHOOSE i \in 1..Len(d) : d[i].k = k].v

\* d[k] = v : a new key is appended, an existing one keeps its place
DictPut(d, k, v) ==
    IF DictHas(d, k)
    THEN [i \in 1..Len(d) |-> IF d[i].k = k THEN Entry(k, v) ELSE d[i]]
    ELSE Append(d, Entry(k, v))

\* d1 == d2 : the same keys with the same values, whatever the order
DictEq(d1, d2) ==
    /\ DictKeys(d1) = DictKeys(d2)
    /\ \A k \in DictKeys(d1) : DictGet(d1, k) = DictGet(d2, k)

-----------------------------------------------------------------------------
(* Text helpers *)

RECURSIVE Concat(_)
Concat(seqs) == IF seqs = <<>> THEN <<>> ELSE Head(seqs) \o Concat(Tail(seqs))

\* text a < text b, code point by code point (Python's str ordering)
RECURSIVE TextLess(_, _)
TextLess(a, b) ==
    IF b = <<>> THEN FALSE
    ELSE IF a = <<>> THEN TRUE
    ELSE IF Head(a) # Head(b) THEN Head(a) < Head(b)
    ELSE TextLess(Tail(a), Tail(b))

\* sorted(keys)
RECURSIVE SortedTexts(_)
SortedTexts(S) ==
    IF S = {} THEN <<>>
    ELSE LET m == CHOOSE x \in S : \A y \in S \ {x} : TextLess(x, y)
         IN <<m>> \o SortedTexts(S \ {m})

RECURSIVE Digits(_)
Digits(n) == IF n < 10 THEN <<48 + n>> ELSE Digits(n \div 10) \o <<48 + (n % 10)>>

\* repr of an int
IntRepr(i) == IF i < 0 THEN <<45>> \o Digits(-i) ELSE Digits(i)

HexDigit(d) == IF d < 10 THEN 48 + d ELSE 87 + d

Hex4(c) == << HexDigit((c \div 4096) % 16), HexDigit((c \div 256) % 16),
              HexDigit((c \div 16) % 16), HexDigit(c % 16) >>

HexValue(c) == IF c >= 48 /\ c <= 57 THEN c - 48
               ELSE IF c >= 97 /\ c <= 102 THEN c - 87
               ELSE c - 55

-----------------------------------------------------------------------------
(* json.dumps(value), as CompositeKey.encode calls it: default separators  *)
(* ', ' and ': ', ensure_ascii, keys in insertion order.                   *)

EscapeChar(c) ==
    IF c = 34 THEN <<92, 34>>
    ELSE IF c = 92 THEN <<92, 92>>
    ELSE IF c = 10 THEN <<92, 110>>
    ELSE IF c = 13 THEN <<92, 114>>
    ELSE IF c = 9 THEN <<92, 116>>
    ELSE IF c < 32 \/ c > 126 THEN <<92, 117>> \o Hex4(c)
    ELSE <<c>>

JsonString(txt) ==
    <<34>> \o Concat([i \in 1..Len(txt) |-> EscapeChar(txt[i])]) \o <<34>>

JsonScalar(v) ==
    CASE v.t = "int" -> IntRepr(v.n)
      [] v.t = "bool" -> IF v.n = 1 THEN <<116, 114, 117, 101>>
                                    ELSE <<102, 97, 108, 115, 101>>
      [] v.t = "none" -> <<110, 117, 108, 108>>
      [] v.t = "str" -> JsonString(v.s)

json_dumps(d) ==
    <<123>>
    \o Concat([i \in 1..Len(d) |->
                 (IF i > 1 THEN <<44, 32>> ELSE <<>>)
                 \o JsonString(d[i].k) \o <<58, 32>> \o JsonScalar(d[i].v)])
    \o <<125>>

-----------------------------------------------------------------------------
(* json.loads(text), as CompositeKey.decode calls it.                      *)

IsWs(c) == c \in {32, 9, 10, 13}

RECURSIVE SkipWs(_, _)
SkipWs(txt, i) == IF i <= Len(txt) /\ IsWs(txt[i]) THEN SkipWs(txt, i + 1) ELSE i

\* the string whose opening quote is before position i: [s, i] with i after the
\* closing quote
RECURSIVE ScanString(_, _, _)
ScanString(txt, i, acc) ==
    IF txt[i] = 34 THEN [s |-> acc, i |-> i + 1]
    ELSE IF txt[i] = 92
    THEN LET e == txt[i + 1]
         IN IF e = 117
            THEN ScanString(txt, i + 6,
                     Append(acc, HexValue(txt[i + 2]) * 4096 + HexValue(txt[i + 3]) * 256
                                 + HexValue(txt[i + 4]) * 16 + HexValue(txt[i + 5])))
            ELSE ScanString(txt, i + 2,
                     Append(acc, CASE e = 110 -> 10
                                   [] e = 114 -> 13
                                   [] e = 116 -> 9
                                   [] e = 98 -> 8
                                   [] e = 102 -> 12
                                   [] OTHER -> e))
    ELSE ScanString(txt, i + 1, Append(acc, txt[i]))

RECURSIVE ScanDigits(_, _, _)
ScanDigits(txt, i, acc) ==
    IF i <= Len(txt) /\ txt[i] >= 48 /\ txt[i] <= 57
    THEN ScanDigits(txt, i + 1, acc * 10 + (txt[i] - 48))
    ELSE [n |-> acc, i |-> i]

\* the value starting at position i: [v, i]
ScanValue(txt, i) ==
    CASE txt[i] = 34 ->
            LET r == ScanString(txt, i + 1, <<>>) IN [v |-> VStr(r.s), i |-> r.i]
      [] txt[i] = 116 -> [v |-> VBool(TRUE), i |-> i + 4]
      [] txt[i] = 102 -> [v |-> VBool(FALSE), i |-> i + 5]
      [] txt[i] = 110 -> [v |-> VNone, i |-> i + 4]
      [] txt[i] = 45 ->
            LET r == ScanDigits(txt, i + 1, 0) IN [v |-> VInt(-r.n), i |-> r.i]
      [] OTHER ->
            LET r == ScanDigits(txt, i, 0) IN [v |-> VInt(r.n), i |-> r.i]

\* the members of an object, position i at the opening quote of a key
RECURSIVE ScanMembers(_, _, _)
ScanMembers(txt, i, acc) ==
    LET key == ScanString(txt, i + 1, <<>>)
        colon == SkipWs(txt, key.i)
        val == ScanValue(txt, SkipWs(txt, colon + 1))
        after == SkipWs(txt, val.i)
        d == DictPut(acc, key.s, val.v)
    IN IF txt[after] = 44 THEN ScanMembers(txt, SkipWs(txt, after + 1), d) ELSE d

json_loads(txt) ==
    LET open == SkipWs(txt, 1)
        first == SkipWs(txt, open + 1)
    IN IF txt[first] = 125 THEN <<>> ELSE ScanMembers(txt, first, <<>>)

-----------------------------------------------------------------------------
(* str.encode('utf-8') and bytes.decode('utf-8') *)

Utf8Char(c) ==
    IF c < 128 THEN <<c>>
    ELSE IF c < 2048 THEN <<192 + (c \div 64), 128 + (c % 64)>>
    ELSE <<224 + (c \div 4096), 128 + ((c \div 64) % 64), 128 + (c % 64)>>

utf8_encode(txt) == Concat([i \in 1..Len(txt) |-> Utf8Char(txt[i])])

RECURSIVE Utf8Scan(_, _, _)
Utf8Scan(bytes, i, acc) ==
    IF i > Len(bytes) THEN acc
    ELSE IF bytes[i] < 128 THEN Utf8Scan(bytes, i + 1, Append(acc, bytes[i]))
    ELSE IF bytes[i] < 224
    THEN Utf8Scan(bytes, i + 2, Append(acc, (bytes[i] - 192) * 64 + (bytes[i + 1] - 128)))
    ELSE Utf8Scan(bytes, i + 3,
             Append(acc, (bytes[i] - 224) * 4096 + (bytes[i + 1] - 128) * 64
                         + (bytes[i + 2] - 128)))

utf8_decode(bytes) == Utf8Scan(bytes, 1, <<>>)

-----------------------------------------------------------------------------
(* base64.b64encode and base64.b64decode *)

\* the character of a 6-bit group: A-Z a-z 0-9 + /
B64Char(x) ==
    IF x < 26 THEN 65 + x
    ELSE IF x < 52 THEN 97 + (x - 26)
    ELSE IF x < 62 THEN 48 + (x - 52)
    ELSE IF x = 62 THEN 43 ELSE 47

B64Value(c) ==
    IF c >= 65 /\ c <= 90 THEN c - 65
    ELSE IF c >= 97 /\ c <= 122 THEN c - 97 + 26
    ELSE IF c >= 48 /\ c <= 57 THEN c - 48 + 52
    ELSE IF c = 43 THEN 62 ELSE 63

B64Pad == 61

RECURSIVE B64Groups(_, _)
B64Groups(bytes, i) ==
    LET left == Len(bytes) - i + 1
    IN IF left <= 0 THEN <<>>
       ELSE IF left = 1
       THEN << B64Char(bytes[i] \div 4), B64Char((bytes[i] % 4) * 16), B64Pad, B64Pad >>
       ELSE IF left = 2
       THEN << B64Char(bytes[i] \div 4),
               B64Char((bytes[i] % 4) * 16 + (bytes[i + 1] \div 16)),
               B64Char((bytes[i + 1] % 16) * 4), B64Pad >>
       ELSE << B64Char(bytes[i] \div 4),
               B64Char((bytes[i] % 4) * 16 + (bytes[i + 1] \div 16)),
               B64Char((bytes[i + 1] % 16) * 4 + (bytes[i + 2] \div 64)),
               B64Char(bytes[i + 2] % 64) >>
            \o B64Groups(bytes, i + 3)

b64encode(bytes) == B64Groups(bytes, 1)

RECURSIVE B64Bytes(_, _)
B64Bytes(txt, i) ==
    IF i + 3 > Len(txt) THEN <<>>
    ELSE LET a == B64Value(txt[i])
             b == B64Value(txt[i + 1])
             c == B64Value(txt[i + 2])
             d == B64Value(txt[i + 3])
         IN IF txt[i + 2] = B64Pad THEN << a * 4 + (b \div 16) >>
            ELSE IF txt[i + 3] = B64Pad
            THEN << a * 4 + (b \div 16), (b % 16) * 16 + (c \div 4) >>
            ELSE << a * 4 + (b \div 16), (b % 16) * 16 + (c \div 4), (c % 4) * 64 + d >>
                 \o B64Bytes(txt, i + 4)

b64decode(txt) == B64Bytes(txt, 1)

\* the token is text again: bytes.decode('utf-8') / str.encode('utf-8') of ASCII
ascii_text(bytes) == utf8_decode(bytes)

-----------------------------------------------------------------------------
(* class CompositeKey(dict) *)

\* an encode that turns every number into text before dumping (str(v) per value)
CompositeKey_encode_stringly(value) ==
    ascii_text(b64encode(utf8_encode(json_dumps(
        [i \in 1..Len(value) |->
            IF value[i].v.t = "int"
            THEN Entry(value[i].k, VStr(IntRepr(value[i].v.n)))
            ELSE value[i]]))))

CompositeKey_encode(value) == ascii_text(b64encode(utf8_encode(json_dumps(value))))

CompositeKey_decode(value) == json_loads(utf8_decode(b64decode(utf8_encode(value))))

CompositeKey_str(self) == CompositeKey_encode(self)

\* hash() of one value and of a tuple of values, modulo HashMod
HashMod == 8191

RECURSIVE TextHash(_)
TextHash(txt) == IF txt = <<>> THEN 7 ELSE (31 * TextHash(Tail(txt)) + Head(txt)) % HashMod

ValueHash(v) ==
    CASE v.t = "int" -> v.n % HashMod
      [] v.t = "bool" -> v.n
      [] v.t = "none" -> 4093
      [] v.t = "str" -> TextHash(v.s)

RECURSIVE TupleHash(_)
TupleHash(tup) ==
    IF tup = <<>> THEN 17
    ELSE (33 * TupleHash(Tail(tup)) + ValueHash(Head(tup))) % HashMod

CompositeKey_hash(self) ==
    LET keys == SortedTexts(DictKeys(self))
    IN TupleHash([i \in 1..Len(keys) |-> DictGet(self, keys[i])])

\* CompositeKeyField.to_python
to_python(value) ==
    IF value.t = "none" \/ value.t = "dict" THEN value
    ELSE VDict(CompositeKey_decode(value.s))

-----------------------------------------------------------------------------
(* The values a key read produces, and the keys built from them *)

T_a == <<97>>                  \* "a"
T_b == <<98>>                  \* "b"
T_ts == <<116, 115>>           \* "ts"

KeyColumnNames == {T_a, T_b, T_ts}

MaxInt == 12

KeyValues ==
    { VInt(-MaxInt), VInt(1), VBool(TRUE), VBool(FALSE), VNone,
      VStr(<<49>>),                      \* "1"
      VStr(<<34, 233, 92, 10>>),         \* a quote, e-acute, a backslash, a newline
      VStr(<<>>) }

RECURSIVE DictsOver(_, _)
DictsOver(names, n) ==
    IF n = 0 THEN {<<>>}
    ELSE LET shorter == DictsOver(names, n - 1)
         IN shorter \cup
            { Append(d, Entry(k, v)) :
                d \in {e \in shorter : Len(e) = n - 1}, k \in names, v \in KeyValues }

KeyDicts == {d \in DictsOver(KeyColumnNames, MaxKeyCols) : Cardinality(DictKeys(d)) = Len(d)}

\* the same pairs inserted in every order
Reorderings(d) ==
    {[i \in 1..Len(d) |-> d[p[i]]] :
        p \in {q \in [1..Len(d) -> 1..Len(d)] : \A i, j \in 1..Len(d) : q[i] = q[j] => i = j}}

NoText == <<>>
NoHash == HashMod           \* no hash() result is that large

KeyInit ==
    /\ keyA \in KeyDicts
    /\ keyB \in Reorderings(keyA)
    /\ tokA = NoText
    /\ tokB = NoText
    /\ hashA = NoHash
    /\ hashB = NoHash
    /\ back = VNone
    /\ kpc = "built"
    \* the rest of the program is not in use
    /\ table = {}
    /\ inst = <<>>
    /\ op = "idle"
    /\ ret = <<>>
    /\ tbl = <<>>
    /\ pk_column = 0
    /\ ci = 0
    /\ col = <<>>
    /\ foreign_key = <<>>
    /\ attrs = <<>>
    /\ mpc = "idle"
    /\ opts_fields = <<>>
    /\ list_display = <<>>
    /\ shown = <<>>
    /\ apc = "idle"

\* str(key) of both keys
StrKeys ==
    /\ kpc = "built"
    /\ tokA' = CompositeKey_str(keyA)
    /\ tokB' = CompositeKey_str(keyB)
    /\ kpc' = "encoded"
    /\ UNCHANGED <<keyA, keyB, hashA, hashB, back>>
    /\ UNCHANGED <<rvars, mvars, avars>>

\* hash(key) of both keys
HashKeys ==
    /\ kpc = "encoded"
    /\ hashA' = CompositeKey_hash(keyA)
    /\ hashB' = CompositeKey_hash(keyB)
    /\ kpc' = "hashed"
    /\ UNCHANGED <<keyA, keyB, tokA, tokB, back>>
    /\ UNCHANGED <<rvars, mvars, avars>>

\* CompositeKeyField.to_python(str(keyA))
ToPython ==
    /\ kpc = "hashed"
    /\ back' = to_python(VStr(tokA))
    /\ kpc' = "decoded"
    /\ UNCHANGED <<keyA, keyB, tokA, tokB, hashA, hashB>>
    /\ UNCHANGED <<rvars, mvars, avars>>

KeyNext == StrKeys \/ HashKeys \/ ToPython

-----------------------------------------------------------------------------
(* Model fields, as CompositeKeyField and Exact read them *)

\* a django.db.models.Field; db_column NoText stands for None
Field(name, db_column, kind) ==
    [py |-> "field", name |-> name, db_column |-> db_column, kind |-> kind]

\* a plain str in a place where a field is expected
PyStr(txt) == [py |-> "str", text |-> txt]

\* x or y, for texts (None and '' are both falsy)
TextOr(x, y) == IF x # NoText THEN x ELSE y

\* ForeignKey.get_attname; any other field's attname is its name
get_attname(field) ==
    IF field.kind = "ForeignKey"
    THEN TextOr(field.db_column, field.name \o <<95, 105, 100>>)
    ELSE field.name

\* model._meta.get_field(name): a field is found by its name or its attname
get_field(fields, name) ==
    CHOOSE f \in {fields[i] : i \in 1..Len(fields)} : f.name = name \/ get_attname(f) = name

\* CompositeKeyField.__init__: reading .db_column of a str raises AttributeError
CompositeKeyField_init(fields) ==
    IF \E i \in 1..Len(fields) : fields[i].py = "str"
    THEN [raised |-> TRUE, fields |-> fields, columns |-> <<>>]
    ELSE [raised |-> FALSE, fields |-> fields,
          columns |-> [i \in 1..Len(fields) |-> TextOr(fields[i].db_column, fields[i].name)]]

-----------------------------------------------------------------------------
(* Values of the key columns and their serialization *)

\* a naive datetime of 2020-01-01 00:00:00 with n microseconds
VDatetime(us) == [t |-> "datetime", n |-> us, s |-> <<>>]
\* a naive time 00:00:00 with n microseconds
VTime(us) == [t |-> "time", n |-> us, s |-> <<>>]
\* a date, decimal, uuid, timedelta or lazy string, with its canonical text in s
VTextual(kind, txt) == [t |-> kind, n |-> 0, s |-> txt]

\* "2020-01-01T00:00:00"
IsoSecond == <<50, 48, 50, 48, 45, 48, 49, 45, 48, 49, 84, 48, 48, 58, 48, 48, 58, 48, 48>>
\* "00:00:00"
IsoClock == <<48, 48, 58, 48, 48, 58, 48, 48>>

RECURSIVE ZeroFill(_, _)
ZeroFill(txt, width) == IF Len(txt) >= width THEN txt ELSE ZeroFill(<<48>> \o txt, width)

RECURSIVE ZeroPadRight(_, _)
ZeroPadRight(txt, width) ==
    IF Len(txt) >= width THEN txt ELSE ZeroPadRight(txt \o <<48>>, width)

\* datetime.isoformat() / time.isoformat(): the fraction only when non-zero
datetime_isoformat(v) ==
    IsoSecond \o (IF v.n # 0 THEN <<46>> \o ZeroFill(Digits(v.n), 6) ELSE <<>>)

time_isoformat(v) ==
    IsoClock \o (IF v.n # 0 THEN <<46>> \o ZeroFill(Digits(v.n), 6) ELSE <<>>)

\* text[a:b] with Python's 0-based, end-exclusive, clipped bounds
Slice(txt, a, b) ==
    LET hi == IF b > Len(txt) THEN Len(txt) ELSE b
    IN IF a >= hi THEN <<>> ELSE SubSeq(txt, a + 1, hi)

EndsWith(txt, suffix) ==
    /\ Len(txt) >= Len(suffix)
    /\ SubSeq(txt, Len(txt) - Len(suffix) + 1, Len(txt)) = suffix

\* CompositeKeyField.to_json
to_json(value) ==
    CASE value.t = "datetime" ->
            LET iso == datetime_isoformat(value)
                cut == IF value.n # 0
                       THEN Slice(iso, 0, 23) \o Slice(iso, 26, Len(iso))
                       ELSE iso
            IN VStr(IF EndsWith(cut, <<43, 48, 48, 58, 48, 48>>)
                    THEN Slice(cut, 0, Len(cut) - 6) \o <<90>>
                    ELSE cut)
      [] value.t = "date" -> VStr(value.s)
      [] value.t = "time" ->
            LET iso == time_isoformat(value)
            IN VStr(IF value.n # 0 THEN Slice(iso, 0, 12) ELSE iso)
      [] value.t = "timedelta" -> VStr(value.s)
      [] value.t \in {"decimal", "uuid", "promise"} -> VStr(value.s)
      [] OTHER -> value

\* django's parse_datetime of "YYYY-MM-DDTHH:MM:SS[.f{1,6}]": the microseconds
ParseMicroseconds(txt) ==
    IF Len(txt) <= 20 THEN 0
    ELSE ScanDigits(ZeroPadRight(Slice(txt, 20, 26), 6), 1, 0).n

\* what a column's own exact lookup compares a row against: the field's
\* get_prep_value of the right-hand side
field_get_prep_value(field, value) ==
    IF field.kind = "DateTimeField" /\ value.t = "str"
    THEN VDatetime(ParseMicroseconds(value.s))
    ELSE value

-----------------------------------------------------------------------------
(* A model with a composite key over (a, ts) *)

T_a_obj == <<97, 95, 111, 98, 106>>     \* "a_obj"

\* the model's concrete fields, in declaration order
RecordFields ==
    << Field(T_a_obj, T_a, "ForeignKey"), Field(T_ts, NoText, "DateTimeField") >>

\* the model's `id`
RecordKey == CompositeKeyField_init(RecordFields)

AttNames == {get_attname(RecordFields[i]) : i \in 1..Len(RecordFields)}

MaxRows == 3         \* most rows of the table

Microseconds == {0, 123000, 123456}

ColumnValues(attname) ==
    IF attname = T_ts THEN {VDatetime(us) : us \in Microseconds} ELSE {VInt(1), VInt(2)}

RowSpace == {r \in [AttNames -> {VInt(1), VInt(2)} \cup {VDatetime(us) : us \in Microseconds}] :
                \A c \in AttNames : r[c] \in ColumnValues(c)}

\* a CompositeKeyField.__set__ that unpacks the assigned key into the record
CompositeKeyField_set_unpacking(self, instance, value) ==
    IF value.t # "dict" THEN instance
    ELSE [c \in DOMAIN instance |->
            IF DictHas(value.s, c) THEN DictGet(value.s, c) ELSE instance[c]]

\* CompositeKeyField.__set__: pass
CompositeKeyField_set(self, instance, value) == instance

\* CompositeKeyField.__get__ for an instance: the CompositeKey of its constituents
CompositeKeyField_get(self, instance) ==
    [i \in 1..Len(self.columns) |->
        Entry(self.columns[i],
              to_json(instance[get_attname(get_field(self.fields, self.columns[i]))]))]

\* Manager.filter(**kwargs): the rows every keyword's column lookup accepts
QuerySet_filter(rows, fields, kwargs) ==
    {r \in rows :
        \A i \in 1..Len(kwargs) :
            LET f == get_field(fields, kwargs[i].k)
            IN r[get_attname(f)] = field_get_prep_value(f, kwargs[i].v)}

\* the rows `delete` removes: filter(**self.__get__(inst))._raw_delete(using)
delete_query(self, rows, instance) ==
    QuerySet_filter(rows, self.fields, CompositeKeyField_get(self, instance))

\* CompositeKeyField.get_prep_value
get_prep_value(value) == to_python(value)

\* Exact.as_sql with the constraints paired off by one
Exact_lookups_shifted(field, rhs) ==
    LET n == Len(field.columns)
    IN [i \in 1..n |->
          [field |-> get_field(field.fields, field.columns[i]),
           rhs |-> DictGet(rhs, field.columns[(i % n) + 1])]]

\* Exact.as_sql: one column lookup per constituent column, against rhs[column]
Exact_lookups(field, rhs) ==
    [i \in 1..Len(field.columns) |->
        [field |-> get_field(field.fields, field.columns[i]),
         rhs |-> DictGet(rhs, field.columns[i])]]

\* WhereNode: the lookups added one by one with AND
RECURSIVE WhereNode_and(_, _)
WhereNode_and(lookups, row) ==
    IF lookups = <<>> THEN TRUE
    ELSE /\ row[get_attname(Head(lookups).field)]
              = field_get_prep_value(Head(lookups).field, Head(lookups).rhs)
         /\ WhereNode_and(Tail(lookups), row)

Exact_as_sql(field, rhs, row) == WhereNode_and(Exact_lookups(field, rhs), row)

Ret(key, rhs, rows) == [key |-> key, rhs |-> rhs, rows |-> rows]
NoRet == Ret(VNone, VNone, {})

\* the tokens a lookup is given: str() of the keys records produce
LookupTokens == {CompositeKey_str(CompositeKeyField_get(RecordKey, r)) : r \in RowSpace}

\* the values assigned to a record's id
AssignedKeys ==
    {VNone} \cup {VDict(CompositeKeyField_get(RecordKey, r)) : r \in RowSpace}

RecordInit ==
    /\ table \in {t \in SUBSET RowSpace : Cardinality(t) <= MaxRows}
    /\ inst = [c \in AttNames |-> VNone]
    /\ op = "new"
    /\ ret = NoRet
    \* the rest of the program is not in use
    /\ keyA = <<>>
    /\ keyB = <<>>
    /\ tokA = NoText
    /\ tokB = NoText
    /\ hashA = NoHash
    /\ hashB = NoHash
    /\ back = VNone
    /\ kpc = "idle"
    /\ tbl = <<>>
    /\ pk_column = 0
    /\ ci = 0
    /\ col = <<>>
    /\ foreign_key = <<>>
    /\ attrs = <<>>
    /\ mpc = "idle"
    /\ opts_fields = <<>>
    /\ list_display = <<>>
    /\ shown = <<>>
    /\ apc = "idle"

\* a record is loaded from its row
Load ==
    /\ \E r \in table : inst' = r
    /\ op' = "load"
    /\ ret' = NoRet
    /\ UNCHANGED table
    /\ UNCHANGED <<kvars, mvars, avars>>

\* setattr(inst, column, value)
SetField ==
    /\ \E c \in AttNames : \E v \in ColumnValues(c) : inst' = [inst EXCEPT ![c] = v]
    /\ op' = "setattr"
    /\ ret' = NoRet
    /\ UNCHANGED table
    /\ UNCHANGED <<kvars, mvars, avars>>

\* inst.id = value
SetPk ==
    /\ \E v \in AssignedKeys : inst' = CompositeKeyField_set(RecordKey, inst, v)
    /\ op' = "setpk"
    /\ ret' = NoRet
    /\ UNCHANGED table
    /\ UNCHANGED <<kvars, mvars, avars>>

\* inst.id
ReadPk ==
    /\ ret' = Ret(VDict(CompositeKeyField_get(RecordKey, inst)), VNone, {})
    /\ op' = "read"
    /\ UNCHANGED <<table, inst>>
    /\ UNCHANGED <<kvars, mvars, avars>>

\* objects.filter(id__exact=token)
Lookup ==
    /\ \E token \in LookupTokens :
          LET rhs == get_prep_value(VStr(token))
          IN ret' = Ret(VNone, rhs, {r \in table : Exact_as_sql(RecordKey, rhs.s, r)})
    /\ op' = "lookup"
    /\ UNCHANGED <<table, inst>>
    /\ UNCHANGED <<kvars, mvars, avars>>

\* inst.delete(): the rows the query matches go, the constituents become None
Delete ==
    /\ table' = table \ delete_query(RecordKey, table, inst)
    /\ inst' = [c \in AttNames |->
                  IF \E i \in 1..Len(RecordKey.columns) : RecordKey.columns[i] = c
                  THEN VNone ELSE inst[c]]
    /\ op' = "delete"
    /\ ret' = NoRet
    /\ UNCHANGED <<kvars, mvars, avars>>

RecordNext == Load \/ SetField \/ SetPk \/ ReadPk \/ Lookup \/ Delete

-----------------------------------------------------------------------------
(* SQLAlchemy's side: column types, columns, foreign keys *)

\* a column type: its class, its length (0 for None) and, for an Enum, its labels
SaType(kind, length, enums) == [kind |-> kind, length |-> length, enums |-> enums]

RECURSIVE LongestLabel(_)
LongestLabel(labels) ==
    IF labels = <<>> THEN 0
    ELSE LET rest == LongestLabel(Tail(labels))
         IN IF Len(Head(labels)) > rest THEN Len(Head(labels)) ELSE rest

\* Enum(*labels): an Enum is a String whose length is that of its longest label
SaEnum(labels) == SaType("Enum", LongestLabel(labels), labels)

\* isinstance(column.type, types.String): Text and Enum subclass String
IsStringType(type) == type.kind \in {"String", "Text", "Enum"}

\* isinstance(column.type, types.Enum)
IsEnumType(type) == type.kind = "Enum"

ColumnId(table_name, name) == [table |-> table_name, name |-> name]
NoColumnId == ColumnId(<<>>, <<>>)

\* a Column; foreign_keys holds the column each of its foreign keys refers to
Column(table_name, name, type, nullable, primary_key, foreign_keys) ==
    [table |-> table_name, name |-> name, type |-> type, nullable |-> nullable,
     primary_key |-> primary_key, foreign_keys |-> foreign_keys]

NoColumn == Column(<<>>, <<>>, SaType("", 0, <<>>), FALSE, FALSE, {})

\* a ForeignKey of column `parent`, referring to `column`
ForeignKeyOf(parent, column) == [parent |-> parent, column |-> column]
NoForeignKey == ForeignKeyOf(NoColumnId, NoColumnId)

T_user == <<117, 115, 101, 114>>
T_user_profile == <<117, 115, 101, 114, 95, 112, 114, 111, 102, 105, 108, 101>>
T_ring_a == <<114, 105, 110, 103, 95, 97>>
T_ring_b == <<114, 105, 110, 103, 95, 98>>
T_multi == <<109, 117, 108, 116, 105>>
T_order_item == <<111, 114, 100, 101, 114, 95, 105, 116, 101, 109>>
T_id == <<105, 100>>
T_user_id == <<117, 115, 101, 114, 95, 105, 100>>
T_owner == <<111, 119, 110, 101, 114>>
T_ref == <<114, 101, 102>>
T_ref_id == <<114, 101, 102, 95, 105, 100>>
T_val == <<118, 97, 108>>
T__id == <<95, 105, 100>>                   \* "_id"
T__obj == <<95, 111, 98, 106>>                 \* "_obj"
T_app_dot == <<115, 113, 108, 97, 108, 99, 104, 101, 109, 121, 95, 100, 106, 97, 110, 103, 111, 95, 97, 100, 109, 105, 110, 46>>   \* "sqlalchemy_django_admin."

SaInteger == SaType("Integer", 0, <<>>)

\* the other tables of the metadata:
\*   user.id; user_profile.user_id -> user.id;
\*   ring_a.ref -> ring_b.ref -> ring_a.ref (two tables referring to each other);
\*   multi.ref -> user.id and -> user_profile.user_id (two foreign keys)
ForeignColumns ==
    { Column(T_user, T_id, SaInteger, FALSE, TRUE, {}),
      Column(T_user_profile, T_user_id, SaInteger, FALSE, TRUE, {ColumnId(T_user, T_id)}),
      Column(T_ring_a, T_ref, SaInteger, FALSE, FALSE, {ColumnId(T_ring_b, T_ref)}),
      Column(T_ring_b, T_ref, SaInteger, FALSE, FALSE, {ColumnId(T_ring_a, T_ref)}),
      Column(T_multi, T_ref, SaInteger, FALSE, FALSE,
             {ColumnId(T_user, T_id), ColumnId(T_user_profile, T_user_id)}) }

\* foreign_key.column
ColumnAt(id) == CHOOSE c \in ForeignColumns : c.table = id.table /\ c.name = id.name

-----------------------------------------------------------------------------
(* __init__.py *)

\* SA_TYPE_TO_MODEL[type(column.type)]
SA_TYPE_TO_MODEL(kind) ==
    CASE kind = "String" -> "CharField"
      [] kind = "Integer" -> "IntegerField"
      [] kind = "DateTime" -> "DateTimeField"
      [] kind = "Date" -> "DateField"
      [] kind = "DECIMAL" -> "DecimalField"
      [] kind = "Boolean" -> "BooleanField"
      [] kind = "BigInteger" -> "BigIntegerField"
      [] kind = "Text" -> "TextField"
      [] kind = "Enum" -> "CharField"
      [] kind = "UUID" -> "UUIDField"
      [] kind = "JSON" -> "RawJSONField"

Upper(c) == IF c >= 97 /\ c <= 122 THEN c - 32 ELSE c
Lower(c) == IF c >= 65 /\ c <= 90 THEN c + 32 ELSE c

\* str.capitalize()
Capitalize(txt) ==
    [i \in 1..Len(txt) |-> IF i = 1 THEN Upper(txt[i]) ELSE Lower(txt[i])]

\* str.split('_')
RECURSIVE SplitUnderscore(_, _)
SplitUnderscore(txt, part) ==
    IF txt = <<>> THEN <<part>>
    ELSE IF Head(txt) = 95 THEN <<part>> \o SplitUnderscore(Tail(txt), <<>>)
    ELSE SplitUnderscore(Tail(txt), Append(part, Head(txt)))

\* _generate_model_name(table)
generate_model_name(table_name) ==
    LET parts == SplitUnderscore(table_name, <<>>)
    IN Concat([i \in 1..Len(parts) |-> Capitalize(parts[i])])

\* the field _column_as_field builds; max_length 0 and the texts NoText stand for
\* an argument that is not given
ModelField(kind, name, null, primary_key, has_choices, choices, max_length, to, to_field, db_column) ==
    [py |-> "field", kind |-> kind, name |-> name, null |-> null,
     primary_key |-> primary_key, editable |-> ~primary_key, blank |-> null,
     has_choices |-> has_choices, choices |-> choices, max_length |-> max_length,
     to |-> to, to_field |-> to_field, db_column |-> db_column]

\* foreign_key.column after the chain walk
walk_target(column, fk) == fk.column

\* a relation name that strips the last three characters whatever they are
relation_name_stripping(name) == Slice(name, 0, Len(name) - 3)

\* name[:-3] if name.endswith('_id') else f'{name}_obj'
relation_name(name) ==
    IF EndsWith(name, T__id) THEN Slice(name, 0, Len(name) - 3) ELSE name \o T__obj

\* a type mapping that never falls back to the long text field
field_class_of_bounded(type) == SA_TYPE_TO_MODEL(type.kind)

\* the field class of a column that is not a foreign key
field_class_of(type) ==
    IF IsStringType(type) /\ type.length = 0
    THEN SA_TYPE_TO_MODEL("Text")
    ELSE SA_TYPE_TO_MODEL(type.kind)

\* _column_as_field(column, pk_column), given fk, the `foreign_key` the chain walk
\* ended with (NoForeignKey for a column without foreign keys): the (name, field) pair
column_as_field(column, is_pk_column, fk) ==
    LET primary_key == column.primary_key \/ is_pk_column
        has_choices == IsEnumType(column.type)
        choices == IF has_choices THEN column.type.enums ELSE <<>>
        max_length == IF IsStringType(column.type) THEN column.type.length ELSE 0
    IN IF column.foreign_keys # {}
       THEN LET target == walk_target(column, fk)
                name == relation_name(column.name)
            IN Entry(name,
                     ModelField("ForeignKey", name, column.nullable, primary_key,
                                has_choices, choices, max_length,
                                T_app_dot \o generate_model_name(target.table),
                                target.name, column.name))
       ELSE Entry(column.name,
                  ModelField(field_class_of(column.type), column.name, column.nullable,
                             primary_key, has_choices, choices, max_length,
                             NoText, NoText, NoText))

\* primary_fields = {k: v for k, v in attrs.items() if v.primary_key}
RECURSIVE primary_fields(_)
primary_fields(entries) ==
    IF entries = <<>> THEN <<>>
    ELSE (IF Head(entries).v.primary_key THEN <<Head(entries)>> ELSE <<>>)
         \o primary_fields(Tail(entries))

\* primary_columns: field.db_column or field_name of every primary field, as str
primary_columns(primaries) ==
    [i \in 1..Len(primaries) |-> PyStr(TextOr(primaries[i].v.db_column, primaries[i].k))]

\* the composite-key step of table_as_model: [raised, attrs]
composite_step(entries) ==
    LET primaries == primary_fields(entries)
        cleared == [i \in 1..Len(entries) |->
                      Entry(entries[i].k, [entries[i].v EXCEPT !.primary_key = FALSE])]
        key == CompositeKeyField_init(primary_columns(primaries))
    IN IF Len(primaries) > 1
       THEN [raised |-> key.raised,
             attrs |-> IF key.raised THEN cleared
                       ELSE DictPut(cleared, T_id,
                                [py |-> "field", kind |-> "CompositeKeyField",
                                 name |-> T_id, primary_key |-> TRUE,
                                 columns |-> key.columns, db_column |-> NoText])]
       ELSE [raised |-> FALSE, attrs |-> entries]

-----------------------------------------------------------------------------
(* The tables given to table_as_model *)

MaxColumns == 2      \* most columns of the converted table
MaxLength == 255     \* longest declared string length

ColumnTypes ==
    { SaType("String", 1, <<>>), SaType("String", MaxLength, <<>>),
      SaType("String", 0, <<>>), SaType("Text", 0, <<>>),
      SaInteger, SaType("BigInteger", 0, <<>>),
      SaType("Date", 0, <<>>), SaType("DateTime", 0, <<>>),
      SaType("DECIMAL", 0, <<>>), SaType("Boolean", 0, <<>>),
      SaEnum(<<T_a, T_ts>>), SaEnum(<<T_b>>),
      SaType("UUID", 0, <<>>), SaType("JSON", 0, <<>>) }

ColumnChoices ==
    {Column(T_order_item, T_val, type, TRUE, FALSE, {}) : type \in ColumnTypes}
    \cup
    {Column(T_order_item, name, SaInteger, ~pk, pk, fks) :
        name \in {T_id, T_user_id, T_owner}, pk \in BOOLEAN,
        fks \in {{}, {ColumnId(T_user, T_id)}}}
    \cup
    {Column(T_order_item, T_ref_id, SaInteger, TRUE, FALSE, {target}) :
        target \in {ColumnId(T_user_profile, T_user_id), ColumnId(T_ring_a, T_ref),
                    ColumnId(T_multi, T_ref)}}

RECURSIVE ColumnLists(_)
ColumnLists(n) ==
    IF n = 0 THEN {<<>>}
    ELSE LET shorter == ColumnLists(n - 1)
         IN shorter \cup
            {Append(cols, c) :
                cols \in {x \in shorter : Len(x) = n - 1},
                c \in ColumnChoices}

DistinctNames(cols) == \A i, j \in 1..Len(cols) : cols[i].name = cols[j].name => i = j

Tables ==
    {[name |-> T_order_item, columns |-> cols] :
        cols \in {c \in ColumnLists(MaxColumns) : Len(c) >= 1 /\ DistinctNames(c)}}

ModelInit ==
    /\ tbl \in Tables
    /\ pk_column \in {0, Len(tbl.columns)}
    /\ ci = 1
    /\ col = NoColumn
    /\ foreign_key = NoForeignKey
    /\ attrs = <<>>
    /\ mpc = "column"
    \* the rest of the program is not in use
    /\ keyA = <<>>
    /\ keyB = <<>>
    /\ tokA = NoText
    /\ tokB = NoText
    /\ hashA = NoHash
    /\ hashB = NoHash
    /\ back = VNone
    /\ kpc = "idle"
    /\ table = {}
    /\ inst = <<>>
    /\ op = "idle"
    /\ ret = <<>>
    /\ opts_fields = <<>>
    /\ list_display = <<>>
    /\ shown = <<>>
    /\ apc = "idle"

\* _column_as_field for a column without foreign keys
ConvertColumn ==
    /\ mpc = "column"
    /\ ci <= Len(tbl.columns)
    /\ tbl.columns[ci].foreign_keys = {}
    /\ LET e == column_as_field(tbl.columns[ci], ci = pk_column, NoForeignKey)
       IN attrs' = DictPut(attrs, e.k, e.v)
    /\ ci' = ci + 1
    /\ UNCHANGED <<tbl, pk_column, col, foreign_key, mpc>>
    /\ UNCHANGED <<kvars, rvars, avars>>

\* _column_as_field for a column with foreign keys, up to the chain walk
BeginWalk ==
    /\ mpc = "column"
    /\ ci <= Len(tbl.columns)
    /\ tbl.columns[ci].foreign_keys # {}
    /\ col' = tbl.columns[ci]
    /\ foreign_key' = NoForeignKey
    /\ mpc' = "walk"
    /\ UNCHANGED <<tbl, pk_column, ci, attrs>>
    /\ UNCHANGED <<kvars, rvars, avars>>

\* one turn of `while col.foreign_keys`: any one of the foreign keys is taken
WalkStep ==
    /\ mpc = "walk"
    /\ col.foreign_keys # {}
    /\ \E target \in col.foreign_keys :
          /\ foreign_key' = ForeignKeyOf(ColumnId(col.table, col.name), target)
          /\ col' = ColumnAt(target)
    /\ UNCHANGED <<tbl, pk_column, ci, attrs, mpc>>
    /\ UNCHANGED <<kvars, rvars, avars>>

\* the walk is over: the rest of _column_as_field
EndWalk ==
    /\ mpc = "walk"
    /\ col.foreign_keys = {}
    /\ LET e == column_as_field(tbl.columns[ci], ci = pk_column, foreign_key)
       IN attrs' = DictPut(attrs, e.k, e.v)
    /\ ci' = ci + 1
    /\ col' = NoColumn
    /\ foreign_key' = NoForeignKey
    /\ mpc' = "column"
    /\ UNCHANGED <<tbl, pk_column>>
    /\ UNCHANGED <<kvars, rvars, avars>>

\* every column is converted: the composite key, then the class is built
BuildModel ==
    /\ mpc = "column"
    /\ ci > Len(tbl.columns)
    /\ LET r == composite_step(attrs)
       IN /\ attrs' = r.attrs
          /\ mpc' = IF r.raised THEN "raised" ELSE "done"
    /\ UNCHANGED <<tbl, pk_column, ci, col, foreign_key>>
    /\ UNCHANGED <<kvars, rvars, avars>>

ModelNext == ConvertColumn \/ BeginWalk \/ WalkStep \/ EndWalk \/ BuildModel

-----------------------------------------------------------------------------
(* admin.py: ModelAdmin.get_list_display *)

T___str__ == <<95, 95, 115, 116, 114, 95, 95>>          \* "__str__"

\* the default of ModelAdmin.list_display
DefaultListDisplay == <<T___str__>>

\* how many columns the list shows when nothing is configured
ListDisplayMax == 4

\* a field of opts.get_fields(), as the admin reads it
AdminField(name, db_column, is_relation, concrete) ==
    [name |-> name, db_column |-> db_column, is_relation |-> is_relation,
     concrete |-> concrete]

IsConcrete(f) == f.concrete

\* a _model_fields that cuts the list before it drops the non-concrete fields
model_fields_cut_first(fields) == SelectSeq(Slice(fields, 0, ListDisplayMax), IsConcrete)

\* ModelAdmin._model_fields
model_fields(fields) == SelectSeq(fields, IsConcrete)

\* ModelAdmin.get_list_display; super().get_list_display returns self.list_display
get_list_display(fields, configured) ==
    IF configured = DefaultListDisplay
    THEN LET first == Slice(model_fields(fields), 0, ListDisplayMax)
         IN [i \in 1..Len(first) |->
               IF first[i].is_relation THEN first[i].db_column ELSE first[i].name]
    ELSE configured

MaxFields == 6       \* most fields of the admin's model

\* the i-th field of a model: a plain column, a foreign key with its db_column,
\* the composite key (not concrete) or a reverse relation (not concrete)
FieldShapes == {"plain", "relation", "composite", "reverse"}

FieldNamed(i, shape) ==
    LET name == <<102>> \o Digits(i)
    IN AdminField(name,
                  IF shape = "relation" THEN name \o T__id ELSE NoText,
                  shape \in {"relation", "reverse"},
                  shape \in {"plain", "relation"})

RECURSIVE FieldLists(_)
FieldLists(n) ==
    IF n = 0 THEN {<<>>}
    ELSE LET shorter == FieldLists(n - 1)
         IN shorter \cup
            {Append(fs, FieldNamed(n, shape)) :
                fs \in {x \in shorter : Len(x) = n - 1}, shape \in FieldShapes}

ListDisplays == {DefaultListDisplay, <<<<102, 49>>>>, <<T___str__, <<102, 49>>>>}

AdminInit ==
    /\ opts_fields \in FieldLists(MaxFields)
    /\ list_display \in ListDisplays
    /\ shown = <<>>
    /\ apc = "configured"
    \* the rest of the program is not in use
    /\ keyA = <<>>
    /\ keyB = <<>>
    /\ tokA = NoText
    /\ tokB = NoText
    /\ hashA = NoHash
    /\ hashB = NoHash
    /\ back = VNone
    /\ kpc = "idle"
    /\ table = {}
    /\ inst = <<>>
    /\ op = "idle"
    /\ ret = <<>>
    /\ tbl = <<>>
    /\ pk_column = 0
    /\ ci = 0
    /\ col = <<>>
    /\ foreign_key = <<>>
    /\ attrs = <<>>
    /\ mpc = "idle"

GetListDisplay ==
    /\ apc = "configured"
    /\ shown' = get_list_display(opts_fields, list_display)
    /\ apc' = "shown"
    /\ UNCHANGED <<opts_fields, list_display>>
    /\ UNCHANGED <<kvars, rvars, mvars>>

AdminNext == GetListDisplay

-----------------------------------------------------------------------------
(* Specifications *)

\* a composite-keyed record and its table
Spec == RecordInit /\ [][RecordNext]_vars

\* the token codec
SpecKey == KeyInit /\ [][KeyNext]_vars

\* table_as_model
SpecModel == ModelInit /\ [][ModelNext]_vars

\* table_as_model runs on: a call that can take a step takes it
FairSpecModel == SpecModel /\ WF_vars(ModelNext)

\* the admin's list columns
SpecAdmin == AdminInit /\ [][AdminNext]_vars

-----------------------------------------------------------------------------
(* Claims about the token codec, checked under SpecKey *)

\* C1: decoding the encoded token of a key mapping gives the mapping back exactly
\* (same columns, same order, same values with their types), and to_python of
\* str(k) is k.
C1_RoundTrip ==
    /\ kpc # "built" => CompositeKey_decode(tokA) = keyA
    /\ kpc = "decoded" => back = VDict(keyA)

C1_Witness ==
    /\ kpc = "decoded"
    /\ Len(keyA) = 2
    /\ \E i \in 1..2 : keyA[i].v = VInt(-MaxInt)
    /\ \E i \in 1..2 : keyA[i].v = VStr(<<34, 233, 92, 10>>)
    /\ back = VDict(keyA)

\* C2: two keys built from the same (column, value) pairs in any insertion order
\* are equal, hash equally, and encode to the same token string.
C2_OrderIndependent ==
    kpc = "decoded" =>
        /\ DictEq(keyA, keyB)
        /\ hashA = hashB
        /\ tokA = tokB

-----------------------------------------------------------------------------
(* Claims about the composite-keyed record, checked under Spec *)

KeyColumns == {RecordKey.columns[i] : i \in 1..Len(RecordKey.columns)}

\* C3: deleting a record removes exactly the rows that equal the record in every
\* constituent column, the record's own row included, whatever the value types.
C3_DeleteExact ==
    [][op' = "delete" =>
          table' = {r \in table : \E c \in KeyColumns : r[c] # inst[c]}]_vars

\* row r passes column c's equality constraint against the token value v
ColumnEquals(r, c, v) ==
    r[c] = field_get_prep_value(get_field(RecordFields, c), v)

\* C4: an exact lookup with token t selects a row iff, for every constituent
\* column c, the row passes c's equality constraint against t[c].
C4_ExactLookup ==
    op = "lookup" =>
        ret.rows = {r \in table :
                      \A c \in KeyColumns : ColumnEquals(r, c, DictGet(ret.rhs.s, c))}

C4_Witness ==
    /\ op = "lookup"
    /\ ret.rows # {}
    /\ \E r \in table \ ret.rows :
          /\ ColumnEquals(r, T_a, DictGet(ret.rhs.s, T_a))
          /\ ~ColumnEquals(r, T_ts, DictGet(ret.rhs.s, T_ts))
    /\ \E r \in table \ ret.rows :
          /\ ~ColumnEquals(r, T_a, DictGet(ret.rhs.s, T_a))
          /\ ColumnEquals(r, T_ts, DictGet(ret.rhs.s, T_ts))

\* a read returned the constituent columns, each with the serialized current value
ReadIsCurrent ==
    op = "read" =>
        /\ ret.key.t = "dict"
        /\ Len(ret.key.s) = Len(RecordKey.columns)
        /\ \A i \in 1..Len(RecordKey.columns) :
              /\ ret.key.s[i].k = RecordKey.columns[i]
              /\ ret.key.s[i].v = to_json(inst[RecordKey.columns[i]])

\* C9: the key is never stored: a read returns exactly the constituent columns with
\* the serialized current values, and assigning the key changes no constituent.
C9_NeverStored ==
    /\ []ReadIsCurrent
    /\ [][op' = "setpk" => inst' = inst]_vars

C9_Witness ==
    /\ op = "read"
    /\ inst[T_a] = VInt(2)
    /\ inst[T_ts] = VDatetime(123456)
    /\ DictGet(ret.key.s, T_a) = VInt(2)

-----------------------------------------------------------------------------
(* Claims about table_as_model, checked under SpecModel and FairSpecModel *)

\* the columns _column_as_field has converted, by index
Converted == {i \in 1..Len(tbl.columns) : i < ci /\ i <= Len(attrs)}

\* the documented field kind of a column type
DocumentedKind(type, f) ==
    CASE type.kind = "String" /\ type.length > 0 ->
            f.kind = "CharField" /\ f.max_length = type.length
      [] type.kind = "String" /\ type.length = 0 ->
            f.kind = "TextField" /\ f.max_length = 0
      [] type.kind = "Text" -> f.kind = "TextField"
      [] type.kind = "Integer" -> f.kind = "IntegerField"
      [] type.kind = "BigInteger" -> f.kind = "BigIntegerField"
      [] type.kind = "Date" -> f.kind = "DateField"
      [] type.kind = "DateTime" -> f.kind = "DateTimeField"
      [] type.kind = "DECIMAL" -> f.kind = "DecimalField"
      [] type.kind = "Boolean" -> f.kind = "BooleanField"
      [] type.kind = "Enum" ->
            f.kind = "CharField" /\ f.has_choices /\ f.choices = type.enums
      [] type.kind = "UUID" -> f.kind = "UUIDField"
      [] type.kind = "JSON" -> f.kind = "RawJSONField"

\* C5: every supported column type is converted to the documented field kind.
C5_TypeMapping ==
    \A i \in Converted :
        tbl.columns[i].foreign_keys = {} => DocumentedKind(tbl.columns[i].type, attrs[i].v)

C5_Witness ==
    /\ mpc = "done"
    /\ \E i \in Converted :
          /\ tbl.columns[i].type = SaType("String", MaxLength, <<>>)
          /\ attrs[i].v.kind = "CharField"
          /\ attrs[i].v.max_length = MaxLength
    /\ \E i \in Converted :
          /\ tbl.columns[i].type.kind = "Integer"
          /\ attrs[i].v.kind = "IntegerField"

\* C6: a foreign-key column is exposed under its name without the '_id' suffix, or
\* with '_obj' appended when it has none; db_column and attname stay the column
\* name; a column without a foreign key keeps its name.
C6_RelationName ==
    \A i \in Converted :
        LET c == tbl.columns[i]
            e == attrs[i]
        IN IF c.foreign_keys # {}
           THEN /\ IF EndsWith(c.name, T__id)
                   THEN e.k \o T__id = c.name
                   ELSE e.k = c.name \o T__obj
                /\ e.v.db_column = c.name
                /\ get_attname(e.v) = c.name
           ELSE e.k = c.name

C6_Witness ==
    /\ Len(tbl.columns) = 2
    /\ Converted = {1, 2}
    /\ tbl.columns[1].name = T_user_id /\ tbl.columns[1].foreign_keys # {}
    /\ attrs[1].k = T_user
    /\ tbl.columns[2].name = T_owner /\ tbl.columns[2].foreign_keys # {}
    /\ attrs[2].k = T_owner \o T__obj

\* the columns that are a primary key: flagged so, or passed as pk_column
PrimaryKeyColumns ==
    {i \in 1..Len(tbl.columns) : tbl.columns[i].primary_key \/ i = pk_column}

RECURSIVE ColumnNamesOf(_, _)
ColumnNamesOf(cols, i) ==
    IF i > Len(cols) THEN <<>>
    ELSE (IF cols[i].primary_key \/ i = pk_column THEN <<cols[i].name>> ELSE <<>>)
         \o ColumnNamesOf(cols, i + 1)

PrimaryKeysOfModel == {i \in 1..Len(attrs) : attrs[i].v.primary_key}

\* C8: a table with several primary-key columns becomes a model whose only primary
\* key is the composite field 'id' over exactly those columns, their own flags
\* cleared; a table with one primary-key column keeps it and gets no 'id'.
C8_OnePrimaryKey ==
    (mpc \in {"done", "raised"} /\ Cardinality(PrimaryKeyColumns) >= 1) =>
        /\ mpc = "done"
        /\ Cardinality(PrimaryKeysOfModel) = 1
        /\ IF Cardinality(PrimaryKeyColumns) > 1
           THEN /\ DictHas(attrs, T_id)
                /\ DictGet(attrs, T_id).kind = "CompositeKeyField"
                /\ DictGet(attrs, T_id).primary_key
                /\ DictGet(attrs, T_id).columns = ColumnNamesOf(tbl.columns, 1)
           ELSE /\ \A i \in PrimaryKeyColumns : attrs[i].v.primary_key
                /\ \A i \in 1..Len(attrs) : attrs[i].v.kind # "CompositeKeyField"

\* the columns a chain of foreign keys leads through
RECURSIVE ChainFrom(_, _)
ChainFrom(frontier, seen) ==
    IF frontier \subseteq seen THEN seen
    ELSE ChainFrom(UNION {ColumnAt(id).foreign_keys : id \in frontier \ seen},
                   seen \cup frontier)

ChainOf(column) == ChainFrom(column.foreign_keys, {})

\* every column of the chain that has a foreign key has exactly one
OneForeignKeyEach(column) ==
    /\ Cardinality(column.foreign_keys) = 1
    /\ \A id \in ChainOf(column) : Cardinality(ColumnAt(id).foreign_keys) <= 1

\* field f refers to the column at the end of column's chain
TargetsOriginal(f, column) ==
    \E id \in ChainOf(column) :
        /\ ColumnAt(id).foreign_keys = {}
        /\ f.to = T_app_dot \o generate_model_name(id.table)
        /\ f.to_field = id.name

\* C10: for a column whose chain has one foreign key per column, the chain walk
\* terminates and the relation refers to the original column at the chain's end.
C10_ChainEnd ==
    \A i \in 1..MaxColumns :
        (mpc = "walk" /\ ci = i /\ OneForeignKeyEach(tbl.columns[i]))
            ~> (ci > i /\ Len(attrs) >= i /\ TargetsOriginal(attrs[i].v, tbl.columns[i]))

-----------------------------------------------------------------------------
(* Claims about the admin's list columns, checked under SpecAdmin *)

ConcreteAt == {i \in 1..Len(opts_fields) : opts_fields[i].concrete}

\* the place of the i-th field among the concrete ones
RankAt(i) == Cardinality({j \in ConcreteAt : j <= i})

\* C7: with the default list_display the list shows the first four concrete fields
\* in declaration order, a relation by its db_column and any other field by its
\* name; a configured list_display is returned unchanged.
C7_ListDisplay ==
    apc = "shown" =>
        IF list_display = DefaultListDisplay
        THEN /\ Len(shown) <= ListDisplayMax
             /\ Len(shown) = Cardinality({i \in ConcreteAt : RankAt(i) <= ListDisplayMax})
             /\ \A i \in ConcreteAt :
                   RankAt(i) <= ListDisplayMax =>
                       shown[RankAt(i)] = IF opts_fields[i].is_relation
                                          THEN opts_fields[i].db_column
                                          ELSE opts_fields[i].name
        ELSE shown = list_display

C7_Witness ==
    /\ apc = "shown"
    /\ list_display = DefaultListDisplay
    /\ Len(shown) = ListDisplayMax
    /\ Cardinality(ConcreteAt) > ListDisplayMax
    /\ \E i \in 1..ListDisplayMax : ~opts_fields[i].concrete
    /\ \E i \in ConcreteAt :
          /\ opts_fields[i].is_relation
          /\ RankAt(i) <= ListDisplayMax
          /\ shown[RankAt(i)] = opts_fields[i].db_column

====
